---- MODULE Spec2Model ----
(***************************************************************************)
(* A model of backend/app.py, the minifitna fitness-tracking API: the      *)
(* three SQLite tables (users, weights, runs), the bearer-token gate and   *)
(* the nine request handlers.                                              *)
(*                                                                         *)
(* Conventions.  Time is counted in whole days: `now` is both time.time()  *)
(* and date.today().  The TEXT column `day` holds ISO dates, which order   *)
(* as the dates do, so a day is modelled by its day number.  REAL values   *)
(* are modelled by integers.  The created_at columns are never read by a   *)
(* handler's logic and are left out of the rows.                           *)
(***************************************************************************)
EXTENDS Integers, Sequences, FiniteSets, TLC

VARIABLES
    users,       \* table users: set of rows
    weights,     \* table weights: set of rows
    runs,        \* table runs: set of rows
    now,         \* the server clock, in days
    issued,      \* the tokens create_token has handed out
    resp,        \* the response to the latest request
    conns,       \* POST /api/runs requests in flight, each with its own connection
    dblock,      \* the request whose connection holds SQLite's write lock, or 0
    lastWeight,  \* history: <<user, day>> -> the latest weight the handler stored
    lastRun,     \* history: <<user, day>> -> the latest <<distance, duration>> stored
    lastPut,     \* history: user -> the body of the latest PUT /api/me that was stored
    seen         \* history: what has happened so far: "weights", "runs" (a row of
                 \* the table was overwritten), "users" (an update changed a goal
                 \* its body did not name), "expired" (a token of our own signing
                 \* was refused)

vars == <<users, weights, runs, now, issued, resp, conns, dblock,
          lastWeight, lastRun, lastPut, seen>>

store == <<users, weights, runs>>

\* ------------------------------------------------------------------ bounds

\* The day the model starts on.
StartDay == 8
\* How many days the clock advances in the main specification.
MaxTicks == 1
\* Rows the clients add to weights and runs together in the main specification.
MaxRows == 2
\* Rows a client adds to each table in the summary specification.
MaxSummaryRows == 3
\* The last day the clock reaches in the token specification.
MaxAuthTicks == 3
\* Requests started in the concurrency specification.
MaxConns == 2

\* ------------------------------------------------------- program constants

\* 60 * 60 * 24 * 14 seconds, in days
TokenTTL == 14
DefaultTargetWeight == 80
DefaultDailyRunKm == 10
\* timedelta(days=6)
WindowBack == 6

\* ------------------------------------------------------------ JSON values

JNull == [k |-> "null", n |-> 0, s |-> <<>>]
JNum(n) == [k |-> "num", n |-> n, s |-> <<>>]
JStr(s) == [k |-> "str", n |-> 0, s |-> s]
\* a JSON string holding the ISO date of day number n
JDate(n) == [k |-> "date", n |-> n, s |-> <<>>]

\* a request body: ok is FALSE when the bytes are not JSON
Body(obj) == [ok |-> TRUE, obj |-> obj]
Malformed == [ok |-> FALSE, obj |-> <<>>]

\* dict.get(key, default)
Get(obj, key, default) == IF key \in DOMAIN obj THEN obj[key] ELSE default

\* Python truthiness of a JSON value
Truthy(v) ==
    CASE v.k = "null" -> FALSE
      [] v.k = "num" -> v.n # 0
      [] v.k = "str" -> v.s # <<>>
      [] OTHER -> TRUE

Digits == <<"0", "1", "2", "3", "4", "5", "6", "7", "8", "9">>

IsDigit(c) == \E i \in 1..10 : Digits[i] = c

DigitValue(c) == (CHOOSE i \in 1..10 : Digits[i] = c) - 1

RECURSIVE ParseDigits(_, _)
ParseDigits(s, acc) ==
    IF s = <<>> THEN acc
    ELSE ParseDigits(Tail(s), acc * 10 + DigitValue(Head(s)))

\* str.strip(): leading and trailing blanks removed
RECURSIVE StripLeft(_)
StripLeft(s) ==
    IF s # <<>> /\ Head(s) = " " THEN StripLeft(Tail(s)) ELSE s

RECURSIVE StripRight(_)
StripRight(s) ==
    IF s # <<>> /\ s[Len(s)] = " " THEN StripRight(SubSeq(s, 1, Len(s) - 1)) ELSE s

Strip(s) == StripRight(StripLeft(s))

\* float(v) raises TypeError on None and ValueError on a non-numeric string
FloatOk(v) ==
    \/ v.k = "num"
    \/ /\ v.k = "str"
       /\ Strip(v.s) # <<>>
       /\ \A i \in 1..Len(Strip(v.s)) : IsDigit(Strip(v.s)[i])

Float(v) == IF v.k = "num" THEN v.n ELSE ParseDigits(Strip(v.s), 0)

LowerChar(c) ==
    CASE c = "A" -> "a"
      [] c = "B" -> "b"
      [] OTHER -> c

\* mutant: the name is stored as typed
LowerForgotten(s) == s

\* str.lower()
Lower(s) == [i \in 1..Len(s) |-> LowerChar(s[i])]

\* ------------------------------------------------------------- responses

NoBody == [none |-> TRUE]

Json(status, body) == [status |-> status, error |-> "", kind |-> "json", body |-> body]
Error(status, code) == [status |-> status, error |-> code, kind |-> "json", body |-> NoBody]
\* Flask's answer to an exception no handler catches, and to a body that is not JSON
Html(status) == [status |-> status, error |-> "", kind |-> "html", body |-> NoBody]

\* ---------------------------------------------------------------- tokens

SECRET_KEY == "APP_SECRET"

_hash_password(password) == <<"pbkdf2_hmac", "static_salt_change_me", password>>

_verify_password(password, password_hash) == _hash_password(password) = password_hash

\* jwt.encode(payload, key): the payload under the signature of key
Encode(payload, key) == [payload |-> payload, key |-> key]

create_token(user_id, username) ==
    Encode([sub |-> user_id, username |-> username, iat |-> now, exp |-> now + TokenTTL],
           SECRET_KEY)

NoAuth == [bearer |-> FALSE, token |-> <<>>]
Bearer(t) == [bearer |-> TRUE, token |-> t]

\* mutant: jwt.decode with verify_signature off
SignatureUnchecked(t) == TRUE

SignatureOk(t) == t.key = SECRET_KEY

\* PyJWT rejects exp < now in every version and exp = now in some: on the day a
\* token expires either answer can come
MayAccept(t) == SignatureOk(t) /\ t.payload.exp >= now
MayReject(t) == ~SignatureOk(t) \/ t.payload.exp =< now

\* ------------------------------------------------------------------ tables

DefaultWeighTime == JStr(<<"0", "8", ":", "0", "0">>)
DefaultRunTime == JStr(<<"1", "8", ":", "0", "0">>)

NextId(rows) == IF rows = {} THEN 1 ELSE 1 + (CHOOSE m \in {r.id : r \in rows} :
                                                \A r \in rows : r.id =< m)

UserRow(id, username, password_hash) ==
    [id |-> id, username |-> username, password_hash |-> password_hash,
     target_weight |-> DefaultTargetWeight, daily_run_km |-> DefaultDailyRunKm,
     weigh_time |-> DefaultWeighTime, run_time |-> DefaultRunTime]

\* the history f with a write of val under key
Record(f, key, val) == [p \in DOMAIN f \cup {key} |-> IF p = key THEN val ELSE f[p]]

\* the events seen, after a write under key to the named table
Conflicts(f, key, table) == IF key \in DOMAIN f THEN seen \cup {table} ELSE seen

\* ------------------------------------------------------------ Auth handlers

Frame == UNCHANGED <<conns, dblock>>
NoWrite == UNCHANGED <<users, weights, runs, lastWeight, lastRun, lastPut, seen>>

register(data) ==
    /\ Frame
    /\ UNCHANGED <<now, weights, runs, lastWeight, lastRun, lastPut, seen>>
    /\ IF ~data.ok
       THEN resp' = Html(400) /\ UNCHANGED <<users, issued>>
       ELSE LET username == Lower(Strip(Get(data.obj, "username", <<>>)))
                password == Get(data.obj, "password", "")
            IN IF username = <<>> \/ password = ""
               THEN /\ resp' = Error(400, "username_password_required")
                    /\ UNCHANGED <<users, issued>>
               ELSE IF \E u \in users : u.username = username
               THEN /\ resp' = Error(409, "username_taken")
                    /\ UNCHANGED <<users, issued>>
               ELSE LET user_id == NextId(users)
                        token == create_token(user_id, username)
                    IN /\ users' = users \cup
                                     {UserRow(user_id, username, _hash_password(password))}
                       /\ issued' = issued \cup {token}
                       /\ resp' = Json(200, [token |-> token, username |-> username])

login(data) ==
    /\ Frame
    /\ NoWrite
    /\ UNCHANGED now
    /\ IF ~data.ok
       THEN resp' = Html(400) /\ UNCHANGED issued
       ELSE LET username == Lower(Strip(Get(data.obj, "username", <<>>)))
                password == Get(data.obj, "password", "")
            IN IF username = <<>> \/ password = ""
               THEN /\ resp' = Error(400, "username_password_required")
                    /\ UNCHANGED issued
               ELSE IF ~\E u \in users : u.username = username
               THEN /\ resp' = Error(401, "invalid_credentials")
                    /\ UNCHANGED issued
               ELSE LET row == CHOOSE u \in users : u.username = username
                    IN IF ~_verify_password(password, row.password_hash)
                       THEN /\ resp' = Error(401, "invalid_credentials")
                            /\ UNCHANGED issued
                       ELSE LET token == create_token(row.id, username)
                            IN /\ issued' = issued \cup {token}
                               /\ resp' = Json(200, [token |-> token,
                                                     username |-> username])

\* ------------------------------------------------------------ auth_required

\* the wrapper's two refusals; neither reaches the handler
Refuse(auth) ==
    /\ \/ /\ ~auth.bearer
          /\ resp' = Error(401, "missing_token")
          /\ UNCHANGED seen
       \/ /\ auth.bearer
          /\ MayReject(auth.token)
          /\ resp' = Error(401, "invalid_token")
          /\ seen' = IF SignatureOk(auth.token) THEN seen \cup {"expired"} ELSE seen
    /\ UNCHANGED <<users, weights, runs, lastWeight, lastRun, lastPut>>
    /\ UNCHANGED <<now, issued>>
    /\ Frame

\* the wrapper lets the request through: g.user_id and g.username are the token's
Admit(auth) == auth.bearer /\ MayAccept(auth.token)

g_user_id(auth) == auth.token.payload.sub

\* ------------------------------------------------------------------ rows

WeightRow(id, user_id, day, weight_kg) ==
    [id |-> id, user_id |-> user_id, day |-> day, weight_kg |-> weight_kg]

RunRow(id, user_id, day, distance_km, duration_min) ==
    [id |-> id, user_id |-> user_id, day |-> day,
     distance_km |-> distance_km, duration_min |-> duration_min]

\* mutant: the table without UNIQUE(user_id, day), so no insert ever conflicts
UpsertWeightNoUnique(rows, user_id, day, weight_kg) ==
    rows \cup {WeightRow(NextId(rows), user_id, day, weight_kg)}

\* INSERT INTO weights ... ON CONFLICT(user_id, day) DO UPDATE SET weight_kg=excluded.weight_kg
UpsertWeight(rows, user_id, day, weight_kg) ==
    IF \E r \in rows : r.user_id = user_id /\ r.day = day
    THEN {IF r.user_id = user_id /\ r.day = day
          THEN [r EXCEPT !.weight_kg = weight_kg] ELSE r : r \in rows}
    ELSE rows \cup {WeightRow(NextId(rows), user_id, day, weight_kg)}

\* mutant: ON CONFLICT(user_id, day) DO NOTHING, the first write wins
UpsertRunKeepFirst(rows, user_id, day, distance_km, duration_min) ==
    IF \E r \in rows : r.user_id = user_id /\ r.day = day
    THEN rows
    ELSE rows \cup {RunRow(NextId(rows), user_id, day, distance_km, duration_min)}

\* mutant: ON CONFLICT(user_id, day) DO UPDATE SET distance_km=excluded.distance_km
UpsertRunDistanceOnly(rows, user_id, day, distance_km, duration_min) ==
    IF \E r \in rows : r.user_id = user_id /\ r.day = day
    THEN {IF r.user_id = user_id /\ r.day = day
          THEN [r EXCEPT !.distance_km = distance_km] ELSE r : r \in rows}
    ELSE rows \cup {RunRow(NextId(rows), user_id, day, distance_km, duration_min)}

\* INSERT INTO runs ... ON CONFLICT(user_id, day) DO UPDATE SET distance_km=..., duration_min=...
UpsertRun(rows, user_id, day, distance_km, duration_min) ==
    IF \E r \in rows : r.user_id = user_id /\ r.day = day
    THEN {IF r.user_id = user_id /\ r.day = day
          THEN [r EXCEPT !.distance_km = distance_km, !.duration_min = duration_min]
          ELSE r : r \in rows}
    ELSE rows \cup {RunRow(NextId(rows), user_id, day, distance_km, duration_min)}

\* ORDER BY day DESC
RECURSIVE OrderByDayDesc(_)
OrderByDayDesc(rows) ==
    IF rows = {} THEN <<>>
    ELSE LET first == CHOOSE r \in rows : \A q \in rows : q.day =< r.day
         IN <<first>> \o OrderByDayDesc(rows \ {first})

\* mutant: the query without WHERE user_id=?
SelectRangeAnyUser(rows, user_id, start, end) ==
    {r \in rows : /\ \A s \in start : r.day >= s
                  /\ \A e \in end : r.day =< e}

\* SELECT * FROM <table> WHERE user_id=? [AND day >= ?] [AND day <= ?]
\* start and end are sets: empty when the query argument is absent or empty
SelectRange(rows, user_id, start, end) ==
    {r \in rows : /\ r.user_id = user_id
                  /\ \A s \in start : r.day >= s
                  /\ \A e \in end : r.day =< e}

\* data.get("day") or today_str()
DayOf(obj) ==
    LET v == Get(obj, "day", JNull) IN IF Truthy(v) THEN v.n ELSE now

ProfileOf(row) ==
    [id |-> row.id, username |-> row.username, target_weight |-> row.target_weight,
     daily_run_km |-> row.daily_run_km, weigh_time |-> row.weigh_time,
     run_time |-> row.run_time]

\* ------------------------------------------------------- Profile handlers

me_get(auth) ==
    \/ Refuse(auth)
    \/ /\ Admit(auth)
       /\ NoWrite
       /\ UNCHANGED <<now, issued>>
       /\ Frame
       /\ IF \E u \in users : u.id = g_user_id(auth)
          THEN resp' = Json(200, ProfileOf(CHOOSE u \in users : u.id = g_user_id(auth)))
          ELSE resp' = Html(500)

GoalFields == {"target_weight", "daily_run_km", "weigh_time", "run_time"}

\* mutant: a field the body leaves out keeps its stored value (merge)
UpdatedUserMerge(u, obj) ==
    [u EXCEPT !.target_weight = IF "target_weight" \in DOMAIN obj
                                THEN Float(obj["target_weight"]) ELSE u.target_weight,
              !.daily_run_km = IF "daily_run_km" \in DOMAIN obj
                               THEN Float(obj["daily_run_km"]) ELSE u.daily_run_km,
              !.weigh_time = Get(obj, "weigh_time", u.weigh_time),
              !.run_time = Get(obj, "run_time", u.run_time)]

\* the row as UPDATE users SET target_weight=?, daily_run_km=?, weigh_time=?,
\* run_time=? leaves it, with the four values read from the body
UpdatedUser(u, obj) ==
    [u EXCEPT !.target_weight = Float(Get(obj, "target_weight", JNum(DefaultTargetWeight))),
              !.daily_run_km = Float(Get(obj, "daily_run_km", JNum(DefaultDailyRunKm))),
              !.weigh_time = Get(obj, "weigh_time", DefaultWeighTime),
              !.run_time = Get(obj, "run_time", DefaultRunTime)]

me_update(auth, data) ==
    \/ Refuse(auth)
    \/ /\ Admit(auth)
       /\ UNCHANGED <<now, issued, weights, runs, lastWeight, lastRun>>
       /\ Frame
       /\ IF ~data.ok
          THEN resp' = Html(400) /\ UNCHANGED <<users, lastPut, seen>>
          ELSE LET tw == Get(data.obj, "target_weight", JNum(DefaultTargetWeight))
                   dr == Get(data.obj, "daily_run_km", JNum(DefaultDailyRunKm))
                   uid == g_user_id(auth)
               IN IF ~FloatOk(tw) \/ ~FloatOk(dr)
                  THEN resp' = Html(500) /\ UNCHANGED <<users, lastPut, seen>>
                  ELSE /\ users' = {IF u.id = uid THEN UpdatedUser(u, data.obj) ELSE u :
                                       u \in users}
                       /\ IF \E u \in users : u.id = uid
                          THEN /\ resp' = Json(200, ProfileOf(CHOOSE u \in users' :
                                                                u.id = uid))
                               /\ lastPut' = Record(lastPut, uid, data.obj)
                               /\ seen' =
                                    IF \E u \in users, f \in GoalFields \ DOMAIN data.obj :
                                          u.id = uid /\ UpdatedUser(u, data.obj)[f] # u[f]
                                    THEN seen \cup {"users"} ELSE seen
                          ELSE /\ resp' = Html(500)
                               /\ UNCHANGED <<lastPut, seen>>

\* ------------------------------------------------------- Weights handlers

weights_list(auth, start, end) ==
    \/ Refuse(auth)
    \/ /\ Admit(auth)
       /\ NoWrite
       /\ UNCHANGED <<now, issued>>
       /\ Frame
       /\ resp' = Json(200, [rows |-> OrderByDayDesc(SelectRange(weights,
                                                   g_user_id(auth), start, end))])

weights_add(auth, data) ==
    \/ Refuse(auth)
    \/ /\ Admit(auth)
       /\ UNCHANGED <<now, issued, users, runs, lastRun, lastPut>>
       /\ Frame
       /\ IF ~data.ok
          THEN resp' = Html(400) /\ UNCHANGED <<weights, lastWeight, seen>>
          ELSE LET day == DayOf(data.obj)
                   w == Get(data.obj, "weight_kg", JNull)
                   uid == g_user_id(auth)
               IN IF ~FloatOk(w)
                  THEN resp' = Html(500) /\ UNCHANGED <<weights, lastWeight, seen>>
                  ELSE /\ weights' = UpsertWeight(weights, uid, day, Float(w))
                       /\ lastWeight' = Record(lastWeight, <<uid, day>>, Float(w))
                       /\ seen' = Conflicts(lastWeight, <<uid, day>>, "weights")
                       /\ resp' = Json(200, [status |-> "ok", day |-> day,
                                             weight_kg |-> Float(w)])

\* ---------------------------------------------------------- Runs handlers

runs_list(auth, start, end) ==
    \/ Refuse(auth)
    \/ /\ Admit(auth)
       /\ NoWrite
       /\ UNCHANGED <<now, issued>>
       /\ Frame
       /\ resp' = Json(200, [rows |-> OrderByDayDesc(SelectRange(runs,
                                                   g_user_id(auth), start, end))])

runs_add(auth, data) ==
    \/ Refuse(auth)
    \/ /\ Admit(auth)
       /\ UNCHANGED <<now, issued, users, weights, lastWeight, lastPut>>
       /\ Frame
       /\ IF ~data.ok
          THEN resp' = Html(400) /\ UNCHANGED <<runs, lastRun, seen>>
          ELSE LET day == DayOf(data.obj)
                   dist == Get(data.obj, "distance_km", JNull)
                   dur == Get(data.obj, "duration_min", JNull)
                   uid == g_user_id(auth)
               IN IF ~FloatOk(dist) \/ ~FloatOk(dur)
                  THEN resp' = Html(500) /\ UNCHANGED <<runs, lastRun, seen>>
                  ELSE /\ runs' = UpsertRun(runs, uid, day, Float(dist), Float(dur))
                       /\ lastRun' = Record(lastRun, <<uid, day>>,
                                         <<Float(dist), Float(dur)>>)
                       /\ seen' = Conflicts(lastRun, <<uid, day>>, "runs")
                       /\ resp' = Json(200, [status |-> "ok", day |-> day,
                                             distance_km |-> Float(dist),
                                             duration_min |-> Float(dur)])

\* ---------------------------------------------------------------- Summary

\* SELECT SUM(distance_km) ...: NULL over no rows, which `or 0.0` turns into 0
RECURSIVE SumDistance(_)
SumDistance(rows) ==
    IF rows = {} THEN 0
    ELSE LET r == CHOOSE x \in rows : TRUE
         IN r.distance_km + SumDistance(rows \ {r})

\* ... FROM runs WHERE user_id=? AND day >= start7
run_7d_km(rows, user_id, today) ==
    LET start7 == today - WindowBack
    IN SumDistance({r \in rows : r.user_id = user_id /\ r.day >= start7})

\* the loop of streak(table): d walks back from today while a row exists
RECURSIVE StreakLoop(_, _, _, _)
StreakLoop(rows, user_id, d, s) ==
    IF ~\E r \in rows : r.user_id = user_id /\ r.day = d
    THEN s
    ELSE StreakLoop(rows, user_id, d - 1, s + 1)

\* mutant: a day of grace, the walk starts yesterday when today has no entry
streakWithGrace(rows, user_id, today) ==
    IF \E r \in rows : r.user_id = user_id /\ r.day = today
    THEN StreakLoop(rows, user_id, today, 0)
    ELSE StreakLoop(rows, user_id, today - 1, 0)

streak(rows, user_id, today) == StreakLoop(rows, user_id, today, 0)

\* SELECT weight_kg, day FROM weights WHERE user_id=? ORDER BY day DESC LIMIT 1
LatestWeight(rows, user_id) ==
    LET mine == {r \in rows : r.user_id = user_id}
    IN IF mine = {} THEN {} ELSE {OrderByDayDesc(mine)[1]}

SummaryPayload(user_id) ==
    LET w == LatestWeight(weights, user_id)
        u == CHOOSE x \in users : x.id = user_id
    IN [latest_weight |-> IF w = {} THEN JNull
                          ELSE JNum((CHOOSE r \in w : TRUE).weight_kg),
        latest_weight_day |-> IF w = {} THEN JNull
                              ELSE JDate((CHOOSE r \in w : TRUE).day),
        delta_to_target |-> IF w = {} THEN JNull
                            ELSE JNum((CHOOSE r \in w : TRUE).weight_kg - u.target_weight),
        daily_run_goal_km |-> u.daily_run_km,
        run_7d_km |-> run_7d_km(runs, user_id, now),
        weigh_streak |-> streak(weights, user_id, now),
        run_streak |-> streak(runs, user_id, now)]

summary(auth) ==
    \/ Refuse(auth)
    \/ /\ Admit(auth)
       /\ NoWrite
       /\ UNCHANGED <<now, issued>>
       /\ Frame
       /\ IF \E u \in users : u.id = g_user_id(auth)
          THEN resp' = Json(200, SummaryPayload(g_user_id(auth)))
          ELSE resp' = Html(500)

\* the clock advances by k days
Tick(k) ==
    /\ now' = now + k
    /\ UNCHANGED <<users, weights, runs, issued, resp, conns, dblock,
                   lastWeight, lastRun, lastPut, seen>>

\* ------------------------------------------- POST /api/runs, step by step
\* Each request has its own connection (get_db, per application context).  The
\* INSERT ... ON CONFLICT statement runs inside the transaction Python's sqlite3
\* opens for it and takes SQLite's write lock; commit() publishes the rows and
\* releases the lock.  A connection that finds the lock taken gets "database is
\* locked" once its busy timeout runs out.

Conn(pc, user_id, day, distance_km, duration_min, pending) ==
    [pc |-> pc, user_id |-> user_id, day |-> day, distance_km |-> distance_km,
     duration_min |-> duration_min, pending |-> pending]

\* auth_required, get_json and the two float() calls
runs_begin(auth, data) ==
    \/ /\ Refuse(auth)
    \/ /\ Admit(auth)
       /\ NoWrite
       /\ UNCHANGED <<now, issued, dblock>>
       /\ IF ~data.ok
          THEN resp' = Html(400) /\ UNCHANGED conns
          ELSE LET dist == Get(data.obj, "distance_km", JNull)
                   dur == Get(data.obj, "duration_min", JNull)
               IN IF ~FloatOk(dist) \/ ~FloatOk(dur)
                  THEN resp' = Html(500) /\ UNCHANGED conns
                  ELSE /\ conns' = Append(conns, Conn("parsed", g_user_id(auth),
                                                      DayOf(data.obj), Float(dist),
                                                      Float(dur), {}))
                       /\ UNCHANGED resp

\* db.execute(INSERT ... ON CONFLICT ...) with the write lock free
runs_execute(c) ==
    /\ conns[c].pc = "parsed"
    /\ dblock = 0
    /\ dblock' = c
    /\ conns' = [conns EXCEPT ![c].pc = "executed",
                              ![c].pending = UpsertRun(runs, conns[c].user_id,
                                                       conns[c].day,
                                                       conns[c].distance_km,
                                                       conns[c].duration_min)]
    /\ NoWrite
    /\ UNCHANGED <<now, issued, resp>>

\* db.execute with the write lock held by another connection until the timeout
runs_locked(c) ==
    /\ conns[c].pc = "parsed"
    /\ dblock # 0
    /\ conns' = [conns EXCEPT ![c].pc = "failed"]
    /\ resp' = Html(500)
    /\ NoWrite
    /\ UNCHANGED <<now, issued, dblock>>

\* db.commit() and the response
runs_commit(c) ==
    /\ conns[c].pc = "executed"
    /\ dblock = c
    /\ runs' = conns[c].pending
    /\ dblock' = 0
    /\ conns' = [conns EXCEPT ![c].pc = "committed"]
    /\ lastRun' = Record(lastRun, <<conns[c].user_id, conns[c].day>>,
                         <<conns[c].distance_km, conns[c].duration_min>>)
    /\ seen' = Conflicts(lastRun, <<conns[c].user_id, conns[c].day>>, "runs")
    /\ resp' = Json(200, [status |-> "ok", day |-> conns[c].day,
                          distance_km |-> conns[c].distance_km,
                          duration_min |-> conns[c].duration_min])
    /\ UNCHANGED <<now, issued, users, weights, lastWeight, lastPut>>

\* ------------------------------------------------------------------ Init

NoResponse == [status |-> 0, error |-> "", kind |-> "none", body |-> NoBody]

\* the state init_db() leaves on a fresh database file, before any request
Init ==
    /\ users = {}
    /\ weights = {}
    /\ runs = {}
    /\ now = StartDay
    /\ issued = {}
    /\ resp = NoResponse
    /\ conns = <<>>
    /\ dblock = 0
    /\ lastWeight = <<>>
    /\ lastRun = <<>>
    /\ lastPut = <<>>
    /\ seen = {}

\* ---------------------------------------------------------------- clients
\* What the clients send.  A client holds the tokens it was issued; anyone can
\* put a payload under a signature of a key of their own.

AttackerKey == "not the secret"

Forged == {Encode([sub |-> 1, username |-> <<"a">>, iat |-> now, exp |-> now + TokenTTL],
                  AttackerKey)}

AuthInputs == {NoAuth} \cup {Bearer(t) : t \in issued \cup Forged}

\* the clients that forge nothing
HonestInputs == {NoAuth} \cup {Bearer(t) : t \in issued}

Credentials(names, passwords) ==
    {Body([username |-> u, password |-> p]) : u \in names, p \in passwords}

T0700 == JStr(<<"0", "7", ":", "0", "0">>)

Ranges(days) == {{}} \cup {{d} : d \in days}

\* bodies of POST /api/weights: with and without a day
WeightBodies(days, values) ==
    {Body("weight_kg" :> v) : v \in values}
        \cup {Body(("day" :> JDate(d)) @@ ("weight_kg" :> v)) : d \in days, v \in values}

\* bodies of POST /api/runs: with and without a day
RunBodies(days, pairs) ==
    {Body(("distance_km" :> p[1]) @@ ("duration_min" :> p[2])) : p \in pairs}
        \cup {Body(("day" :> JDate(d)) @@ ("distance_km" :> p[1])
                       @@ ("duration_min" :> p[2])) : d \in days, p \in pairs}

\* ------------------------------------------------- the main specification
\* Two users record weights and runs and list them.

Register ==
    \E data \in Credentials({<<"a">>, <<"B", " ">>}, {"pw"}) \cup {Malformed} :
        register(data)

WeightsList ==
    \E auth \in AuthInputs, start \in Ranges({now}), end \in Ranges({now - 1}) :
        weights_list(auth, start, end)

WeightsAdd ==
    \E auth \in AuthInputs :
        \E data \in WeightBodies({now - 1}, {JNum(70), JStr(<<"7", "2">>)})
                      \cup {Body(<<>>), Body("weight_kg" :> JStr(<<"x">>)), Malformed} :
            /\ weights_add(auth, data)
            /\ Cardinality(weights') + Cardinality(runs') =< MaxRows

RunsList ==
    \E auth \in AuthInputs, start \in Ranges({now}), end \in Ranges({now - 1}) :
        runs_list(auth, start, end)

RunsAdd ==
    \E auth \in AuthInputs :
        \E data \in RunBodies({now - 1}, {<<JNum(5), JNum(30)>>,
                                          <<JStr(<<"3">>), JNum(45)>>})
                      \cup {Body("distance_km" :> JNum(5)),
                            Body("duration_min" :> JNum(30)), Malformed} :
            /\ runs_add(auth, data)
            /\ Cardinality(weights') + Cardinality(runs') =< MaxRows

Next ==
    \/ Register
    \/ WeightsList
    \/ WeightsAdd
    \/ RunsList
    \/ RunsAdd

Spec == Init /\ [][Next]_vars

\* ---------------------------------------------- the summary specification
\* One user records weights and runs on days around today, before and after it,
\* asks for the summary, and the clock passes midnight.

SumRegister == register(Body([username |-> <<"a">>, password |-> "pw"]))

SumWeightsAdd ==
    \E auth \in HonestInputs :
        \E data \in WeightBodies({StartDay - 3, StartDay - 1, StartDay + 1}, {JNum(70)}) :
            /\ weights_add(auth, data)
            /\ Cardinality(weights') + Cardinality(runs') =< MaxSummaryRows

\* each day has a distance of its own, so a sum tells which days are in it
SumRunsAdd ==
    \E auth \in HonestInputs :
        \E data \in {Body(("distance_km" :> JNum(5)) @@ ("duration_min" :> JNum(30)))}
                      \cup {Body(("day" :> JDate(StartDay + p[1]))
                                     @@ ("distance_km" :> JNum(p[2]))
                                     @@ ("duration_min" :> JNum(30))) :
                              p \in {<<0 - 7, 10>>, <<0 - 6, 4>>, <<0 - 1, 3>>, <<1, 20>>}} :
            /\ runs_add(auth, data)
            /\ Cardinality(weights') + Cardinality(runs') =< MaxSummaryRows

SumSummary == \E auth \in HonestInputs : summary(auth)

SumMidnight == now < StartDay + MaxTicks /\ Tick(1)

NextSummary ==
    \/ SumRegister
    \/ SumWeightsAdd
    \/ SumRunsAdd
    \/ SumSummary
    \/ SumMidnight

SpecSummary == Init /\ [][NextSummary]_vars

\* ---------------------------------------------- the profile specification
\* Clients register under names in several spellings, log in, and read and
\* replace their goals.

ProfRegisterBodies ==
    Credentials({<<"a">>, <<"A">>, <<" ", "a", " ">>, <<"b">>, <<"B">>}, {"pw", ""})
        \cup {Body("password" :> "pw"), Malformed}

ProfRegister == \E data \in ProfRegisterBodies : register(data)

ProfLogin ==
    \E data \in Credentials({<<"A">>, <<"b", " ">>}, {"pw", "guess"})
                  \cup {Body("username" :> <<"a">>), Malformed} :
        login(data)

ProfMeGet == \E auth \in AuthInputs : me_get(auth)

ProfMeBodies ==
    {Body(<<>>),
     Body("target_weight" :> JNum(75)),
     Body(("daily_run_km" :> JStr(<<"5">>)) @@ ("weigh_time" :> T0700)
              @@ ("run_time" :> JNull)),
     Body("target_weight" :> JNull),
     Body("daily_run_km" :> JStr(<<"x">>)),
     Malformed}

ProfMeUpdate == \E auth \in AuthInputs, data \in ProfMeBodies : me_update(auth, data)

NextProfile ==
    \/ ProfRegister
    \/ ProfLogin
    \/ ProfMeGet
    \/ ProfMeUpdate

SpecProfile == Init /\ [][NextProfile]_vars

\* ------------------------------------------------ the token specification
\* A user registers and logs in, the clock advances by half the life of a token
\* at a time, and every protected route is called with no credential, with
\* tokens that were issued, fresh and old, and with payloads signed by somebody
\* else.

AuthTickDays == TokenTTL \div 2

AuthClients ==
    AuthInputs \cup {Bearer(Encode(t.payload, AttackerKey)) : t \in issued}

AuthRegister == register(Body([username |-> <<"a">>, password |-> "pw"]))

AuthLogin == \E data \in Credentials({<<"a">>}, {"pw", "guess"}) : login(data)

\* one request to a protected route
AuthStep(auth) ==
    \/ me_get(auth)
    \/ me_update(auth, Body("target_weight" :> JNum(75)))
    \/ weights_list(auth, {}, {})
    \/ weights_add(auth, Body(("day" :> JDate(StartDay)) @@ ("weight_kg" :> JNum(70))))
    \/ runs_list(auth, {}, {})
    \/ runs_add(auth, Body(("day" :> JDate(StartDay)) @@ ("distance_km" :> JNum(5))
                               @@ ("duration_min" :> JNum(30))))
    \/ summary(auth)

AuthRequest == \E auth \in AuthClients : AuthStep(auth)

AuthTick ==
    /\ now + AuthTickDays =< StartDay + MaxAuthTicks * AuthTickDays
    /\ Tick(AuthTickDays)

NextAuth ==
    \/ AuthRegister
    \/ AuthLogin
    \/ AuthRequest
    \/ AuthTick

SpecAuth == Init /\ [][NextAuth]_vars

\* -------------------------------------------- the isolation specification
\* Two users, each with a token, call every protected route.

IsoRegister == \E data \in Credentials({<<"a">>, <<"b">>}, {"pw"}) : register(data)

IsoRequest == \E auth \in AuthClients : AuthStep(auth)

NextIsolation ==
    \/ IsoRegister
    \/ IsoRequest

SpecIsolation == Init /\ [][NextIsolation]_vars

\* ------------------------------------------------- the race specification
\* One user sends POST /api/runs requests that are in flight together, for two
\* days and with two (distance, duration) pairs.

RacePairs == {<<JNum(5), JNum(30)>>, <<JNum(3), JNum(45)>>}

RaceRegister == register(Body([username |-> <<"a">>, password |-> "pw"]))

RaceBegin ==
    /\ Len(conns) < MaxConns
    /\ \E auth \in HonestInputs, data \in RunBodies({StartDay - 1}, RacePairs) :
          runs_begin(auth, data)

RaceExecute == \E c \in 1..Len(conns) : runs_execute(c)

RaceLocked == \E c \in 1..Len(conns) : runs_locked(c)

RaceCommit == \E c \in 1..Len(conns) : runs_commit(c)

NextRace ==
    \/ RaceRegister
    \/ RaceBegin
    \/ RaceExecute
    \/ RaceLocked
    \/ RaceCommit

SpecRace == Init /\ [][NextRace]_vars

\* ------------------------------------------------------ claims: records

\* what GET /api/weights and GET /api/runs list for a user, with no range given
ListedWeights(user_id) == OrderByDayDesc(SelectRange(weights, user_id, {}, {}))
ListedRuns(user_id) == OrderByDayDesc(SelectRange(runs, user_id, {}, {}))

\* the entries of a listing that are for the given day
OnDay(listing, day) == {i \in 1..Len(listing) : listing[i].day = day}

UserIds == {u.id : u \in users}
RecordedDays == {r.day : r \in weights \cup runs} \cup {now}

\* C1: after any sequence of register, POST /api/weights and POST /api/runs
\* requests, the store holds at most one weights row and at most one runs row
\* for each (user, day) pair.
C1_OneEntryPerUserDay ==
    /\ \A r, q \in weights : (r.user_id = q.user_id /\ r.day = q.day) => r = q
    /\ \A r, q \in runs : (r.user_id = q.user_id /\ r.day = q.day) => r = q

\* a row of weights was overwritten and the table holds two rows
C1_Witness ==
    /\ Cardinality(weights) = 2
    /\ "weights" \in seen

\* C2: last write wins.  For every user and day, GET /api/weights lists exactly
\* the weight of the latest POST /api/weights for that user and day, and GET
\* /api/runs exactly the distance and duration of the latest POST /api/runs (and
\* nothing for a pair never written); and repeating the latest write leaves the
\* table as it is.
C2_LastWriteWins ==
    /\ \A u \in UserIds, d \in RecordedDays :
         LET l == ListedWeights(u)
         IN IF <<u, d>> \in DOMAIN lastWeight
            THEN /\ Cardinality(OnDay(l, d)) = 1
                 /\ \A i \in OnDay(l, d) : l[i].weight_kg = lastWeight[<<u, d>>]
                 /\ UpsertWeight(weights, u, d, lastWeight[<<u, d>>]) = weights
            ELSE OnDay(l, d) = {}
    /\ \A u \in UserIds, d \in RecordedDays :
         LET l == ListedRuns(u)
         IN IF <<u, d>> \in DOMAIN lastRun
            THEN /\ Cardinality(OnDay(l, d)) = 1
                 /\ \A i \in OnDay(l, d) :
                      <<l[i].distance_km, l[i].duration_min>> = lastRun[<<u, d>>]
                 /\ UpsertRun(runs, u, d, lastRun[<<u, d>>][1],
                              lastRun[<<u, d>>][2]) = runs
            ELSE OnDay(l, d) = {}
    /\ \A p \in DOMAIN lastWeight \cup DOMAIN lastRun :
         p[1] \in UserIds /\ p[2] \in RecordedDays

\* a weight and a run have each been overwritten
C2_Witness ==
    /\ seen = {"weights", "runs"}
    /\ \E p \in DOMAIN lastWeight : lastWeight[p] = 72
    /\ \E p \in DOMAIN lastRun : lastRun[p] = <<3, 45>>

\* ------------------------------------------------------ claims: summary

HasEntry(rows, user_id, day) == \E r \in rows : r.user_id = user_id /\ r.day = day

\* the largest k with an entry on each of today, today-1, ..., today-(k-1)
LargestRun(rows, user_id, today) ==
    LET K == {k \in 0..Cardinality(rows) :
                \A i \in 0..(k - 1) : HasEntry(rows, user_id, today - i)}
    IN CHOOSE k \in K : \A j \in K : j =< k

\* the longest run of consecutive days with an entry, anywhere in the history
RECURSIVE LongestEver(_, _, _)
LongestEver(rows, user_id, days) ==
    IF days = {} THEN 0
    ELSE LET d == CHOOSE x \in days : TRUE
             here == LargestRun(rows, user_id, d)
             rest == LongestEver(rows, user_id, days \ {d})
         IN IF here > rest THEN here ELSE rest

\* C3: in the answer of GET /api/summary, weigh_streak (run_streak) is the largest
\* k such that the user has a weight (run) entry on each of the k days ending
\* today; it is 0 whenever there is no entry for today.
C3_StreakFromToday ==
    [][\A auth \in AuthInputs :
          (summary(auth) /\ resp'.status = 200) =>
             LET u == g_user_id(auth)
                 b == resp'.body
             IN /\ b.weigh_streak = LargestRun(weights, u, now)
                /\ b.run_streak = LargestRun(runs, u, now)
                /\ ~HasEntry(weights, u, now) => b.weigh_streak = 0
                /\ ~HasEntry(runs, u, now) => b.run_streak = 0]_vars

\* a summary answered weigh_streak 0 the day after a streak of two days ended,
\* and run_streak 1 for a run today
C3_Witness ==
    /\ resp.status = 200
    /\ "weigh_streak" \in DOMAIN resp.body
    /\ resp.body.weigh_streak = 0
    /\ {r.day : r \in weights} = {now - 1, now - 2}
    /\ LongestEver(weights, 1, {r.day : r \in weights}) = 2
    /\ resp.body.run_streak = 1
    /\ {r.day : r \in runs} = {now}

\* C4 as claimed: run_7d_km is the sum of the distances of the user's runs dated
\* from today-6 through today, and nothing else.
C4_SevenDayWindow ==
    [][\A auth \in AuthInputs :
          (summary(auth) /\ resp'.status = 200) =>
             resp'.body.run_7d_km =
                SumDistance({r \in runs : /\ r.user_id = g_user_id(auth)
                                          /\ r.day >= now - WindowBack
                                          /\ r.day =< now})]_vars

\* ------------------------------------------------------ claims: profile

\* what a PUT /api/me with this body is to leave in a goal field: the value the
\* body supplies, else the fixed default
Replaced(obj, field, default) == IF field \in DOMAIN obj THEN obj[field] ELSE default

\* C5: PUT /api/me replaces and does not merge.  After any sequence of profile
\* updates by a user, each of the four goal fields holds the value the latest
\* update supplied, and 80.0, 10.0, "08:00", "18:00" where it supplied none.
C5_ReplaceNotMerge ==
    \A id \in DOMAIN lastPut :
        \E u \in users :
            /\ u.id = id
            /\ u.target_weight = Float(Replaced(lastPut[id], "target_weight", JNum(80)))
            /\ u.daily_run_km = Float(Replaced(lastPut[id], "daily_run_km", JNum(10)))
            /\ u.weigh_time = Replaced(lastPut[id], "weigh_time",
                                       JStr(<<"0", "8", ":", "0", "0">>))
            /\ u.run_time = Replaced(lastPut[id], "run_time",
                                     JStr(<<"1", "8", ":", "0", "0">>))

\* the only user's latest update supplied target_weight alone, and an update
\* has put a goal it did not name back to the default
C5_Witness ==
    /\ Cardinality(users) = 1
    /\ "users" \in seen
    /\ \E id \in DOMAIN lastPut :
          /\ DOMAIN lastPut[id] = {"target_weight"}
          /\ \E u \in users : u.id = id /\ u.target_weight = 75 /\ u.daily_run_km = 10

\* ----------------------------------------------------- claims: register

FoldChar(c) ==
    CASE c = "a" -> "A"
      [] c = "b" -> "B"
      [] OTHER -> c

\* two names that differ in nothing but the case of their letters
SameIgnoringCase(x, y) ==
    Len(x) = Len(y) /\ \A i \in 1..Len(x) : FoldChar(x[i]) = FoldChar(y[i])

\* the request names a user that exists
NamesExisting(data) ==
    /\ data.ok
    /\ "username" \in DOMAIN data.obj
    /\ \E u \in users : SameIgnoringCase(u.username, data.obj["username"])

StoreUnchanged == users' = users /\ weights' = weights /\ runs' = runs

UsernamesLowerAndDistinct ==
    /\ \A u \in users : \A i \in 1..Len(u.username) : u.username[i] \notin {"A", "B"}
    /\ \A u, v \in users : SameIgnoringCase(u.username, v.username) => u = v

MissingToken == Error(401, "missing_token")
InvalidToken == Error(401, "invalid_token")

\* the age of a token, in days
Age(t) == now - t.payload.iat

\* C7: a request to GET/PUT /api/me, GET/POST /api/weights, GET/POST /api/runs
\* or GET /api/summary reaches its handler only with a bearer token that
\* register or login issued and that is not older than 14 days; with no bearer
\* credential the answer is missing_token, with a badly signed or an expired
\* token invalid_token, and either way nothing stored changes.
C7_TokenGate ==
    [][\A auth \in AuthClients :
          AuthStep(auth) =>
             /\ ~auth.bearer => (resp' = MissingToken /\ StoreUnchanged)
             /\ (auth.bearer /\ (~SignatureOk(auth.token) \/ Age(auth.token) > TokenTTL))
                   => (resp' = InvalidToken /\ StoreUnchanged)
             /\ resp' \in {MissingToken, InvalidToken} => StoreUnchanged
             /\ resp' \notin {MissingToken, InvalidToken} =>
                   /\ auth.bearer
                   /\ auth.token \in issued
                   /\ Age(auth.token) =< TokenTTL]_vars

\* a token that was issued is older than 14 days and was refused, after the
\* handlers stored a weight, a run and a goal with it
C7_Witness ==
    /\ resp = InvalidToken
    /\ "expired" \in seen
    /\ \A t \in issued : Age(t) > TokenTTL
    /\ weights # {} /\ runs # {}
    /\ DOMAIN lastPut # {}

\* ---------------------------------------------------- claims: concurrency

Committed(u, d) ==
    {c \in 1..Len(conns) :
        conns[c].pc = "committed" /\ conns[c].user_id = u /\ conns[c].day = d}

\* C8: whatever the interleaving of concurrent POST /api/runs requests of one
\* user for one day, once any of them has committed there is exactly one runs
\* row for that (user, day), and its distance and duration are together the
\* pair of one of the committed requests, never the distance of one and the
\* duration of another.
C8_NeverAMix ==
    \A c \in 1..Len(conns) :
        conns[c].pc = "committed" =>
           LET u == conns[c].user_id
               d == conns[c].day
               mine == {r \in runs : r.user_id = u /\ r.day = d}
           IN /\ Cardinality(mine) = 1
              /\ \A r \in mine :
                    \E k \in Committed(u, d) :
                       /\ r.distance_km = conns[k].distance_km
                       /\ r.duration_min = conns[k].duration_min

\* two requests for the same day with different pairs overlapped: the one that
\* began first committed last, and its pair is the one stored
C8_Witness ==
    /\ Len(conns) >= 2
    /\ conns[1].pc = "committed" /\ conns[2].pc = "committed"
    /\ conns[1].day = conns[2].day
    /\ conns[1].distance_km # conns[2].distance_km
    /\ conns[1].duration_min # conns[2].duration_min
    /\ \E r \in runs : /\ r.distance_km = conns[1].distance_km
                       /\ r.duration_min = conns[1].duration_min
    /\ lastRun[<<conns[1].user_id, conns[1].day>>]
          = <<conns[1].distance_km, conns[1].duration_min>>

\* ------------------------------------------------------ claims: isolation

RowsOf(rows, user_id) == {r \in rows : r.user_id = user_id}

\* what GET /api/me answers to the user
MeResult(user_id) == ProfileOf(CHOOSE u \in users : u.id = user_id)

\* C9: a request that a handler serves for the user of its token leaves every
\* other user's weights rows, runs rows and users row as they were, and with
\* them what that other user is answered by GET /api/weights, /api/runs,
\* /api/me and /api/summary; and GET /api/summary changes no stored row.
C9_UserIsolation ==
    [][\A auth \in AuthClients :
          /\ (AuthStep(auth) /\ Admit(auth) /\ resp' \notin {MissingToken, InvalidToken}) =>
                \A b \in users :
                   b.id # g_user_id(auth) =>
                      /\ b \in users'
                      /\ RowsOf(weights', b.id) = RowsOf(weights, b.id)
                      /\ RowsOf(runs', b.id) = RowsOf(runs, b.id)
                      /\ ListedWeights(b.id)' = ListedWeights(b.id)
                      /\ ListedRuns(b.id)' = ListedRuns(b.id)
                      /\ MeResult(b.id)' = MeResult(b.id)
                      /\ SummaryPayload(b.id)' = SummaryPayload(b.id)
          /\ summary(auth) => StoreUnchanged]_vars

\* two users, each with a weight and a run stored, one with goals of its own,
\* and the summary just answered
C9_Witness ==
    /\ Cardinality(users) = 2
    /\ \A u \in UserIds : RowsOf(weights, u) # {} /\ RowsOf(runs, u) # {}
    /\ Cardinality(DOMAIN lastPut) = 1
    /\ \E u, v \in users : u.target_weight # v.target_weight
    /\ resp.status = 200
    /\ "run_7d_km" \in DOMAIN resp.body

\* -------------------------------------------------------- claims: errors

ErrorCodes == {"username_password_required", "username_taken", "invalid_credentials",
               "missing_token", "invalid_token"}

\* C10: every request is answered 200, or with one of the five error codes in
\* a JSON body under a 4xx status, and a request that is not answered 200
\* leaves everything stored as it was.
C10_FailsWithErrorCode ==
    [][resp' # resp =>
          /\ \/ resp'.status = 200
             \/ /\ resp'.kind = "json"
                /\ resp'.status \in 400..499
                /\ resp'.error \in ErrorCodes
          /\ resp'.status # 200 => StoreUnchanged]_vars

====
